---- MODULE Spec2Model ----
(***************************************************************************)
(* Accu-Chek glucometer bridge (server.py): the BLE acquisition loop, the  *)
(* glucose-measurement decoder, the reading cache shared with the HTTP     *)
(* route /api/data, and the CSV file that holds the latest reading.        *)
(***************************************************************************)
EXTENDS Integers, Sequences, FiniteSets, TLC

(***************************************************************************)
(* Bounds of the model.                                                    *)
(***************************************************************************)
\* notifications delivered over one run of the process
MaxNotifs == 2
\* concurrent HTTP request threads calling get_data
NumReaders == 2

(***************************************************************************)
(* Arithmetic helpers.                                                     *)
(***************************************************************************)
RECURSIVE Pow10(_)
Pow10(n) == IF n <= 0 THEN 1 ELSE 10 * Pow10(n - 1)

\* floor division for a positive divisor
FloorDiv(a, b) == IF a >= 0 THEN a \div b ELSE -(((-a) + b - 1) \div b)

\* Python's round(): nearest integer to num/den, ties to the even one
RoundHalfEven(num, den) ==
  LET q == FloorDiv(num, den)
      r == num - q * den
  IN  IF 2 * r < den THEN q
      ELSE IF 2 * r > den THEN q + 1
      ELSE IF q % 2 = 0 THEN q ELSE q + 1

\* '<H': little-endian unsigned 16-bit
UnpackH(lo, hi) == lo + 256 * hi

\* data[a:b] of a Python bytes object (0-based, clipped to the object)
Slice(data, a, b) ==
  LET lo == IF a < Len(data) THEN a ELSE Len(data)
      hi == IF b < Len(data) THEN b ELSE Len(data)
  IN  IF hi <= lo THEN << >> ELSE SubSeq(data, lo + 1, hi)

\* format spec :02d (non-negative operand)
Pad2(n) == IF n < 10 THEN "0" \o ToString(n) ELSE ToString(n)

(***************************************************************************)
(* parse_glucose.  A decoded concentration is kept exactly: mgdl is an     *)
(* integer, mmol is a number of tenths together with the Python type of    *)
(* the value (round(int, 1) is an int, round(float, 1) a float).           *)
(***************************************************************************)
MOLAR_NUM == 180182
MOLAR_DEN == 10000

\* as DecodeMantissa, had the sign test of line 101 been > 0x0800
DecodeMantissa_SignAbove(raw) ==
  LET m == raw % 4096 IN IF m > 2048 THEN -(4096 - m) ELSE m

\* lines 100-102
DecodeMantissa(raw) ==
  LET m == raw % 4096 IN IF m >= 2048 THEN -(4096 - m) ELSE m

\* lines 104-106
DecodeExponent(raw) ==
  LET e == raw \div 4096 IN IF e >= 8 THEN -(16 - e) ELSE e

\* f"{year}-{month:02d}-{day:02d} {hours:02d}:{minutes:02d}:{seconds:02d}"
FormatTime(year, month, day, hours, minutes, seconds) ==
  ToString(year) \o "-" \o Pad2(month) \o "-" \o Pad2(day) \o " " \o
  Pad2(hours) \o ":" \o Pad2(minutes) \o ":" \o Pad2(seconds)

\* as Convert, had both branches used the factor 18 for 18.0182
Convert_Factor18(kgl, mantissa, exponent) ==
  LET num == mantissa * Pow10(exponent)
      den == Pow10(-exponent)
  IN  IF kgl
      THEN LET mgdl == RoundHalfEven(num * 100000, den)
           IN  [mgdl |-> mgdl,
                mmol10 |-> RoundHalfEven(mgdl * 10, 18),
                mmolInt |-> FALSE]
      ELSE LET mmol10 == IF exponent >= 0 THEN num * 10000
                         ELSE RoundHalfEven(num * 10000, den)
           IN  [mgdl |-> RoundHalfEven(mmol10 * 18, 10),
                mmol10 |-> mmol10,
                mmolInt |-> exponent >= 0]

\* the two unit branches; val = mantissa * 10^exponent
Convert(kgl, mantissa, exponent) ==
  LET num == mantissa * Pow10(exponent)
      den == Pow10(-exponent)
  IN  IF kgl
      THEN LET mgdl == RoundHalfEven(num * 100000, den)
           IN  [mgdl |-> mgdl,
                mmol10 |-> RoundHalfEven(mgdl * 10 * MOLAR_DEN, MOLAR_NUM),
                mmolInt |-> FALSE]
      ELSE LET mmol10 == IF exponent >= 0 THEN num * 10000
                         ELSE RoundHalfEven(num * 10000, den)
           IN  [mgdl |-> RoundHalfEven(mmol10 * MOLAR_NUM, 10 * MOLAR_DEN),
                mmol10 |-> mmol10,
                mmolInt |-> exponent >= 0]

\* str(mgdl): mgdl is always an int
StrMgdl(c) == ToString(c.mgdl)

\* str(mmol): repr of an int, or of a float that has one decimal
StrMmol(c) ==
  IF c.mmolInt THEN ToString(c.mmol10 \div 10)
  ELSE LET a == IF c.mmol10 < 0 THEN -c.mmol10 ELSE c.mmol10
       IN  (IF c.mmol10 < 0 THEN "-" ELSE "") \o
           ToString(a \div 10) \o "." \o ToString(a % 10)

ParseError == [ok |-> FALSE]

\* as Decode, had the time offset (minutes) been added to the base time
Decode_OffsetApplied(data) ==
  LET flags == data[1]
      time_offset_present == (flags % 2) = 1
      concentration_unit_kg_l == ((flags \div 4) % 2) = 0
      offset == IF time_offset_present THEN 12 ELSE 10
      raw_sfloat == UnpackH(data[offset + 1], data[offset + 2])
      c == Convert(concentration_unit_kg_l,
                   DecodeMantissa(raw_sfloat), DecodeExponent(raw_sfloat))
      minutes == IF time_offset_present
                 THEN (data[9] + UnpackH(data[11], data[12])) % 60
                 ELSE data[9]
  IN  [ok |-> TRUE,
       dt |-> FormatTime(UnpackH(data[4], data[5]), data[6], data[7],
                         data[8], minutes, data[10]),
       mgdl |-> c.mgdl, mmol10 |-> c.mmol10, mmolInt |-> c.mmolInt]

\* lines 71-126 on a payload that holds every byte they read
Decode(data) ==
  LET flags == data[1]
      time_offset_present == (flags % 2) = 1
      concentration_unit_kg_l == ((flags \div 4) % 2) = 0
      offset == IF time_offset_present THEN 12 ELSE 10
      raw_sfloat == UnpackH(data[offset + 1], data[offset + 2])
      c == Convert(concentration_unit_kg_l,
                   DecodeMantissa(raw_sfloat), DecodeExponent(raw_sfloat))
  IN  [ok |-> TRUE,
       dt |-> FormatTime(UnpackH(data[4], data[5]), data[6], data[7],
                         data[8], data[9], data[10]),
       mgdl |-> c.mgdl, mmol10 |-> c.mmol10, mmolInt |-> c.mmolInt]

\* as parse_glucose, had missing bytes been read as zero
parse_glucose_ZeroFilled(data) ==
  Decode(data \o [i \in 1..14 |-> 0])

\* data[0] and data[offset+2..offset+6] raise IndexError, struct.unpack
\* raises struct.error unless its slice holds 2 bytes
parse_glucose(data) ==
  IF Len(data) = 0 THEN ParseError
  ELSE IF Len(Slice(data, 3, 5)) # 2 THEN ParseError
  ELSE IF Len(data) < 10 THEN ParseError
  ELSE IF Len(Slice(data, IF data[1] % 2 = 1 THEN 12 ELSE 10,
                          IF data[1] % 2 = 1 THEN 14 ELSE 12)) # 2
       THEN ParseError
  ELSE Decode(data)

(***************************************************************************)
(* Configuration and the environment of the process.                       *)
(***************************************************************************)
GLUCOSE_SERVICE_UUID == "00001808-0000-1000-8000-00805f9b34fb"
CsvHeader == <<"Timestamp", "Glucose (mg/dL)", "Glucose (mmol/L)">>

StatusInitializing == "Initializing..."
StatusScanning == "Scanning for Accu-Chek..."
StatusConnecting(name) == "Connecting to " \o name \o "..."
StatusConnected == "Connected! Waiting for Data..."

\* peers that may advertise near the host; named = FALSE is d.name None
Devices ==
  { [named |-> FALSE, name |-> "", uuids |-> {GLUCOSE_SERVICE_UUID}],
    [named |-> TRUE, name |-> "Accu-Chek Guide", uuids |-> {}],
    [named |-> TRUE, name |-> "Mi Band", uuids |-> {}] }
NoDevice == [named |-> FALSE, name |-> "", uuids |-> {"none"}]

\* f"{device.name}"
NameStr(d) == IF d.named THEN d.name ELSE "None"

\* "Accu" in d.name
HasAccu(name) ==
  \E i \in 1..Len(name) : i + 3 <= Len(name) /\ SubSeq(name, i, i + 3) = "Accu"

\* lambda d, ad: GLUCOSE_SERVICE_UUID in ad.service_uuids if ad.service_uuids else False
ServiceFilter(d) == IF d.uuids # {} THEN GLUCOSE_SERVICE_UUID \in d.uuids ELSE FALSE

\* lambda d, ad: d.name and "Accu" in d.name
NameFilter(d) == d.named /\ d.name # "" /\ HasAccu(d.name)

\* measurement records as the meter sends them: flags, sequence number,
\* base time 2024-03-15 08:30:ss, [time offset], concentration word
BaseTime(seconds) == <<232, 7, 3, 15, 8, 30, seconds>>
MkPayload(flags, seconds, word) ==
  <<flags, 1, 0>> \o BaseTime(seconds) \o
  (IF flags % 2 = 1 THEN <<60, 0>> ELSE << >>) \o
  <<word % 256, word \div 256>>

\* SFLOAT word with a non-negative mantissa and a negative exponent
SFloat(mantissa, exponent) == (16 + exponent) * 4096 + mantissa

\* 120 * 10^-5 kg/L (120 mg/dL) and 53 * 10^-4 mol/L (5.3 mmol/L)
GoodPayloads ==
  { MkPayload(0, 0, SFloat(120, -5)), MkPayload(4, 7, SFloat(53, -4)) }
\* a record cut at 9 bytes, an empty one, and a record whose time-offset
\* flag is set although the offset field is missing
BadPayloads ==
  { SubSeq(MkPayload(0, 0, SFloat(120, -5)), 1, 9), << >>,
    <<1, 1, 0>> \o BaseTime(0) \o <<120, 176>> }
EnginePayloads == GoodPayloads \cup BadPayloads
\* one record that decodes and one that does not
LivePayloads ==
  { MkPayload(0, 0, SFloat(120, -5)), SubSeq(MkPayload(0, 0, SFloat(120, -5)), 1, 9) }

\* inputs of the decoder: records with every combination of the three flag
\* bits parse_glucose looks at, cut at every length
SampleWords == { SFloat(120, -5), SFloat(53, -4), SFloat(2047, -5) }
FullPayloads == { MkPayload(f, 0, w) : f \in 0..7, w \in SampleWords }
ParseInputs == { Slice(p, 0, n) : p \in FullPayloads, n \in 0..14 }

\* records carrying every 16-bit concentration word
AllWordPayloads ==
  { <<0, 1, 0>> \o BaseTime(0) \o <<lo, hi>> : lo \in 0..255, hi \in 0..255 }

\* records with the time-offset flag set: every combination of the other
\* two flag bits, three base times, offset fields that are zero, 60 minutes,
\* the bytes of another concentration word and all ones
OffsetFields ==
  { <<0, 0>>, <<60, 0>>, <<255, 255>>,
    <<SFloat(53, -4) % 256, SFloat(53, -4) \div 256>> }
OffsetPayloads ==
  { <<f, 1, 0>> \o BaseTime(sec) \o off \o <<w % 256, w \div 256>> :
      f \in {1, 3, 5, 7}, sec \in {0, 7, 59}, off \in OffsetFields,
      w \in SampleWords }

\* records whose readings are saved and read back: the sample words under
\* every flag combination and two base times, a negative concentration in
\* either unit (mantissa field 0xFFB is -5) and 1 mol/L, whose mmol is an
\* int
RoundTripPayloads ==
  { MkPayload(f, sec, w) : f \in 0..7, sec \in {0, 7}, w \in SampleWords } \cup
    { MkPayload(0, 7, SFloat(4096 - 5, -4)),
      MkPayload(4, 7, SFloat(4096 - 5, -4)),
      MkPayload(4, 7, 1) }

\* num/den lies exactly halfway between two integers
IsTie(num, den) == 2 * (num - FloorDiv(num, den) * den) = den

\* records with flag bit 2 clear and set, carrying the words m * 10^e for
\* e in -6..-4 and m in 0..2047.  Left out are the mantissas that, at one
\* of these exponents, make the scaled value of line 116 or 122 exactly
\* halfway between two results: there the binary float product decides
\* which neighbour round() returns, the exact value does not.
ConvertPayloads ==
  { MkPayload(f, 0, SFloat(m, e)) : f \in {0, 4},
      m \in 0..2047, e \in (-6)..(-4) }
    \ { MkPayload(f, 0, SFloat(m, e)) : f \in {0, 4},
         m \in { k \in 0..2047 :
                   IsTie(k * 100000, Pow10(6)) \/ IsTie(k * 10000, Pow10(6))
                     \/ IsTie(k * 10000, Pow10(5)) },
         e \in (-6)..(-4) }

\* the arguments notification_handler passes to save_reading
SaveArgs(r) == [timestamp |-> r.dt, mgdl |-> StrMgdl(r), mmol |-> StrMmol(r)]

\* csv.writer (excel dialect, QUOTE_MINIMAL): a field that holds the
\* delimiter, a quote or a line break is written between quotes with its
\* quotes doubled, the fields of a row are joined by commas
HasSpecial(s) ==
  \E i \in 1..Len(s) : SubSeq(s, i, i) \in {",", "\"", "\n", "\r"}

RECURSIVE DoubleQuotes(_)
DoubleQuotes(s) ==
  IF Len(s) = 0 THEN ""
  ELSE (IF SubSeq(s, 1, 1) = "\"" THEN "\"\"" ELSE SubSeq(s, 1, 1))
         \o DoubleQuotes(SubSeq(s, 2, Len(s)))

CsvField(s) == IF HasSpecial(s) THEN "\"" \o DoubleQuotes(s) \o "\"" ELSE s

RECURSIVE CsvJoin(_)
CsvJoin(fields) ==
  IF Len(fields) = 0 THEN ""
  ELSE IF Len(fields) = 1 THEN CsvField(fields[1])
  ELSE CsvField(fields[1]) \o "," \o CsvJoin(Tail(fields))

\* csv.reader on one line: the fields from position i on, cur being the
\* field read so far and inq telling whether a quoted part is open
RECURSIVE SplitCsv(_, _, _, _)
SplitCsv(line, i, cur, inq) ==
  IF i > Len(line) THEN <<cur>>
  ELSE LET c == SubSeq(line, i, i) IN
    IF inq
    THEN IF c = "\""
         THEN IF i < Len(line) /\ SubSeq(line, i + 1, i + 1) = "\""
              THEN SplitCsv(line, i + 2, cur \o "\"", TRUE)
              ELSE SplitCsv(line, i + 1, cur, FALSE)
         ELSE SplitCsv(line, i + 1, cur \o c, TRUE)
    ELSE IF c = "," THEN <<cur>> \o SplitCsv(line, i + 1, "", FALSE)
         ELSE IF c = "\"" /\ cur = "" THEN SplitCsv(line, i + 1, cur, TRUE)
         ELSE SplitCsv(line, i + 1, cur \o c, FALSE)

\* as WrittenFile, without the writerow of line 56
WrittenFile_NoHeader(a) ==
  [exists |-> TRUE, rows |-> <<CsvJoin(<<a.timestamp, a.mgdl, a.mmol>>)>>]

\* the file as save_reading leaves it, line by line: the header row, then
\* the reading
WrittenFile(a) ==
  [exists |-> TRUE,
   rows |-> <<CsvJoin(CsvHeader), CsvJoin(<<a.timestamp, a.mgdl, a.mmol>>)>>]
AbsentFile == [exists |-> FALSE, rows |-> << >>]
\* what a failing write leaves: open(CSV_FILE, 'w') raised and the file is
\* untouched, or it truncated the file and the buffered rows never reached it
FailedWrites(old) == { old, [exists |-> TRUE, rows |-> << >>] }

\* sugar_readings.csv as an earlier run of the process may have left it
InitialFiles ==
  { AbsentFile,
    WrittenFile([timestamp |-> "2024-03-14 21:05:00", mgdl |-> "101", mmol |-> "5.6"]) }

\* load_csv: csv.DictReader takes the first line as the field names and
\* load_csv makes one cache entry per further line, out of the fields under
\* the three names; a name missing from the first line raises KeyError at
\* the first row, which the bare except swallows (a row too short for a
\* name reads as None, shown here as the text None)
LoadRows(f) ==
  IF ~f.exists \/ Len(f.rows) = 0 THEN << >>
  ELSE LET fieldnames == SplitCsv(f.rows[1], 1, "", FALSE)
           Col(name) == CHOOSE k \in 1..Len(fieldnames) : fieldnames[k] = name
           Get(row, name) ==
             IF Col(name) <= Len(row) THEN row[Col(name)] ELSE "None"
       IN  IF \E j \in 1..3 :
                \A k \in 1..Len(fieldnames) : fieldnames[k] # CsvHeader[j]
           THEN << >>
           ELSE [i \in 1..(Len(f.rows) - 1) |->
                   LET row == SplitCsv(f.rows[i + 1], 1, "", FALSE)
                   IN  [timestamp |-> Get(row, CsvHeader[1]),
                        mgdl |-> Get(row, CsvHeader[2]),
                        mmol |-> Get(row, CsvHeader[3])]]

\* the readings load_csv can find at startup
InitialRows ==
  UNION { { LoadRows(f)[j] : j \in 1..Len(LoadRows(f)) } : f \in InitialFiles }

(***************************************************************************)
(* State.                                                                  *)
(***************************************************************************)
VARIABLES
  main_pc,         \* __main__: "load" before load_csv, then "run"
  latest_status,   \* global latest_status
  readings_cache,  \* global readings_cache
  csv_file,        \* sugar_readings.csv
  pc,              \* ble_loop: the statement it is at or awaiting
  device,          \* ble_loop local
  client,          \* BleakClient context: "none", "open", "lost"
  subscribed,      \* notifications on GLUCOSE_MEASUREMENT_UUID enabled
  exc,             \* exception travelling out of the async-with body
  caught,          \* exception this iteration handled at line 175 or 181
  h_pc,            \* notification_handler / save_reading frame
  h_data,          \* payload of the latest notification_handler call
  h_args,          \* arguments of the running save_reading
  r_pc, r_readings,   \* get_data frames, one per HTTP thread
  notifs,          \* notifications delivered
  sinkCalls,       \* CSV writes begun by save_reading
  commits,         \* assignments to readings_cache by save_reading
  saved,           \* the arguments of every save_reading call so far
  windowLog,       \* outcome of each notification of the current sync window
  opened,          \* this iteration entered the BleakClient context
  closeAttempted,  \* this iteration ran BleakClient.__aexit__
  sf               \* parse_glucose frame: the concentration bytes and the
                   \* raw_sfloat, mantissa and exponent made of them

vars == <<main_pc, latest_status, readings_cache, csv_file, pc, device, client,
          subscribed, exc, caught, h_pc, h_data, h_args, r_pc, r_readings,
          notifs, sinkCalls, commits, saved, windowLog, opened, closeAttempted,
          sf>>

storeVars == <<latest_status, readings_cache, csv_file>>
bleVars == <<pc, device, client, subscribed, exc, caught, opened, closeAttempted>>
handlerVars == <<h_pc, h_data, h_args, notifs, sinkCalls, commits, saved,
                 windowLog>>
readerVars == <<r_pc, r_readings>>

Readers == 1..NumReaders
NoArgs == [timestamp |-> "", mgdl |-> "", mmol |-> ""]
\* the frame before line 98 has run on the bytes lo, hi
SFloatFrame(lo, hi) ==
  [lo |-> lo, hi |-> hi, done |-> FALSE, raw_sfloat |-> 0, mantissa |-> 0,
   exponent |-> 0]

Init ==
  /\ main_pc = "load"
  /\ latest_status = StatusInitializing
  /\ readings_cache = << >>
  /\ csv_file \in InitialFiles
  /\ pc = "top"
  /\ device = NoDevice
  /\ client = "none"
  /\ subscribed = FALSE
  /\ exc = ""
  /\ caught = ""
  /\ h_pc = "idle"
  /\ h_data = << >>
  /\ h_args = NoArgs
  /\ r_pc = [r \in Readers |-> "idle"]
  /\ r_readings = [r \in Readers |-> << >>]
  /\ notifs = 0
  /\ sinkCalls = 0
  /\ commits = 0
  /\ saved = {}
  /\ windowLog = << >>
  /\ opened = FALSE
  /\ closeAttempted = FALSE
  /\ sf = SFloatFrame(0, 0)

(***************************************************************************)
(* __main__ and the Flask route.                                           *)
(***************************************************************************)
\* load_csv(), then the BLE thread and the Flask server are started
LoadCsv ==
  /\ main_pc = "load"
  /\ main_pc' = "run"
  /\ readings_cache' = LoadRows(csv_file)
  /\ UNCHANGED <<latest_status, csv_file, bleVars, handlerVars, readerVars, sf>>

\* get_data: the dict handed to jsonify holds latest_status and the list
\* object readings_cache names when line 31 is evaluated; the status member
\* is latest_status of that instant and is not kept in the frame here
GetDataReadings(r) ==
  /\ main_pc = "run" /\ r_pc[r] = "idle"
  /\ r_pc' = [r_pc EXCEPT ![r] = "readings"]
  /\ r_readings' = [r_readings EXCEPT ![r] = readings_cache]
  /\ UNCHANGED <<main_pc, storeVars, bleVars, handlerVars, sf>>

\* as GetDataReturn, had the route emptied the list it has just served
GetDataReturn_Drains(r) ==
  /\ r_pc[r] = "readings"
  /\ r_pc' = [r_pc EXCEPT ![r] = "idle"]
  /\ r_readings' = [r_readings EXCEPT ![r] = << >>]
  /\ readings_cache' = << >>
  /\ UNCHANGED <<main_pc, latest_status, csv_file, bleVars, handlerVars, sf>>

\* jsonify(...) is returned to the client
GetDataReturn(r) ==
  /\ r_pc[r] = "readings"
  /\ r_pc' = [r_pc EXCEPT ![r] = "idle"]
  /\ r_readings' = [r_readings EXCEPT ![r] = << >>]
  /\ UNCHANGED <<main_pc, storeVars, bleVars, handlerVars, sf>>

(***************************************************************************)
(* ble_loop.  One action per outcome of each awaited transport call; the   *)
(* code between two awaits runs with the action that ends the first.  The  *)
(* loop and notification_handler share one event loop, so the loop only    *)
(* resumes while no handler call is running.                               *)
(***************************************************************************)
BleReady == main_pc = "run" /\ h_pc = "idle"

\* line 141, then the first scan is started
LoopTop ==
  /\ BleReady /\ pc = "top"
  /\ latest_status' = StatusScanning
  /\ pc' = "scan_uuid"
  /\ opened' = FALSE /\ closeAttempted' = FALSE /\ caught' = ""
  /\ windowLog' = << >>
  /\ UNCHANGED <<main_pc, readings_cache, csv_file, device, client, subscribed,
                 exc, h_pc, h_data, h_args, notifs, sinkCalls, commits, saved,
                 readerVars, sf>>

\* lines 157-159 and entry into BleakClient(device, timeout=20.0)
Found(d) ==
  /\ device' = d
  /\ latest_status' = StatusConnecting(NameStr(d))
  /\ pc' = "connect"
  /\ UNCHANGED <<main_pc, readings_cache, csv_file, client, subscribed, exc,
                 caught, opened, closeAttempted, handlerVars, readerVars,
                 sf>>

\* except Exception at line 181
LoopError(msg) ==
  /\ caught' = msg
  /\ pc' = "idle"
  /\ UNCHANGED <<main_pc, storeVars, device, client, subscribed, exc,
                 opened, closeAttempted, handlerVars, readerVars, sf>>

ScanUuidFound(d) ==
  /\ BleReady /\ pc = "scan_uuid" /\ ServiceFilter(d)
  /\ Found(d)

ScanUuidNone ==
  /\ BleReady /\ pc = "scan_uuid"
  /\ device' = NoDevice
  /\ pc' = "scan_name"
  /\ UNCHANGED <<main_pc, storeVars, client, subscribed, exc, caught,
                 opened, closeAttempted, handlerVars, readerVars, sf>>

\* as ScanUuidError, without the try of line 144: the coroutine ends
ScanUuidError_Escapes ==
  /\ BleReady /\ pc = "scan_uuid"
  /\ pc' = "exited"
  /\ UNCHANGED <<main_pc, storeVars, device, client, subscribed, exc, caught,
                 opened, closeAttempted, handlerVars, readerVars, sf>>

ScanUuidError ==
  /\ BleReady /\ pc = "scan_uuid"
  /\ LoopError("scan failed")

ScanNameFound(d) ==
  /\ BleReady /\ pc = "scan_name" /\ NameFilter(d)
  /\ Found(d)

\* as ScanNameNone, without the if of line 157
ScanNameNone_Connects ==
  /\ BleReady /\ pc = "scan_name"
  /\ Found(NoDevice)

\* else: pass
ScanNameNone ==
  /\ BleReady /\ pc = "scan_name"
  /\ device' = NoDevice
  /\ pc' = "idle"
  /\ UNCHANGED <<main_pc, storeVars, client, subscribed, exc, caught,
                 opened, closeAttempted, handlerVars, readerVars, sf>>

ScanNameError ==
  /\ BleReady /\ pc = "scan_name"
  /\ LoopError("scan failed")

\* __aenter__ returns and client.is_connected holds: lines 164-167
ConnectOk ==
  /\ BleReady /\ pc = "connect"
  /\ client' = "open" /\ opened' = TRUE
  /\ latest_status' = StatusConnected
  /\ pc' = "start_notify"
  /\ UNCHANGED <<main_pc, readings_cache, csv_file, device, subscribed, exc,
                 caught, closeAttempted, handlerVars, readerVars, sf>>

\* __aenter__ returns but the peer is already gone: the if at 163 is false
ConnectNotConnected ==
  /\ BleReady /\ pc = "connect"
  /\ client' = "lost" /\ opened' = TRUE
  /\ pc' = "aexit"
  /\ UNCHANGED <<main_pc, storeVars, device, subscribed, exc, caught,
                 closeAttempted, handlerVars, readerVars, sf>>

\* __aenter__ raises or times out: except Exception at line 175
ConnectError ==
  /\ BleReady /\ pc = "connect"
  /\ caught' = "connect failed"
  /\ pc' = "idle"
  /\ UNCHANGED <<main_pc, storeVars, device, client, subscribed, exc,
                 opened, closeAttempted, handlerVars, readerVars, sf>>

StartNotifyOk ==
  /\ BleReady /\ pc = "start_notify" /\ client = "open"
  /\ subscribed' = TRUE
  /\ pc' = "dwell"
  /\ UNCHANGED <<main_pc, storeVars, device, client, exc, caught, opened,
                 closeAttempted, handlerVars, readerVars, sf>>

\* as StartNotifyError, had the client been connected without async with
StartNotifyError_NoClose ==
  /\ BleReady /\ pc = "start_notify"
  /\ caught' = "start_notify failed"
  /\ pc' = "idle"
  /\ UNCHANGED <<main_pc, storeVars, device, client, subscribed, exc,
                 opened, closeAttempted, handlerVars, readerVars, sf>>

StartNotifyError ==
  /\ BleReady /\ pc = "start_notify"
  /\ exc' = "start_notify failed"
  /\ pc' = "aexit"
  /\ UNCHANGED <<main_pc, storeVars, device, client, subscribed, caught,
                 opened, closeAttempted, handlerVars, readerVars, sf>>

\* the meter drops the link on its own (it does so after sending its records)
PeerDisconnect ==
  /\ main_pc = "run" /\ client = "open"
  /\ pc \in {"start_notify", "dwell", "stop_notify"}
  /\ client' = "lost"
  /\ subscribed' = FALSE
  /\ UNCHANGED <<main_pc, storeVars, pc, device, exc, caught, opened,
                 closeAttempted, handlerVars, readerVars, sf>>

\* asyncio.sleep(10.0) returns
DwellEnd ==
  /\ BleReady /\ pc = "dwell"
  /\ pc' = "stop_notify"
  /\ UNCHANGED <<main_pc, storeVars, device, client, subscribed, exc, caught,
                 opened, closeAttempted, handlerVars, readerVars, sf>>

StopNotifyOk ==
  /\ BleReady /\ pc = "stop_notify"
  /\ subscribed' = FALSE
  /\ pc' = "aexit"
  /\ UNCHANGED <<main_pc, storeVars, device, client, exc, caught, opened,
                 closeAttempted, handlerVars, readerVars, sf>>

StopNotifyError ==
  /\ BleReady /\ pc = "stop_notify"
  /\ exc' = "stop_notify failed"
  /\ pc' = "aexit"
  /\ UNCHANGED <<main_pc, storeVars, device, client, subscribed, caught,
                 opened, closeAttempted, handlerVars, readerVars, sf>>

\* as AExit, had leaving the async-with block not disconnected the client
AExit_LeavesOpen ==
  /\ BleReady /\ pc = "aexit"
  /\ closeAttempted' = TRUE
  /\ exc' = ""
  /\ caught' \in {exc, "disconnect failed"}
  /\ pc' = "idle"
  /\ UNCHANGED <<main_pc, storeVars, device, client, subscribed, opened,
                 handlerVars, readerVars, sf>>

\* BleakClient.__aexit__: disconnect(); an exception of the body, or one of
\* disconnect() itself, then reaches the except at line 175
AExit ==
  /\ BleReady /\ pc = "aexit"
  /\ closeAttempted' = TRUE
  /\ client' = "none" /\ subscribed' = FALSE
  /\ exc' = ""
  /\ caught' \in {exc, "disconnect failed"}
  /\ pc' = "idle"
  /\ UNCHANGED <<main_pc, storeVars, device, opened, handlerVars, readerVars, sf>>

\* as Idle, had line 141 been written above the while True
Idle_StatusSetOnce ==
  /\ BleReady /\ pc = "idle"
  /\ pc' = "scan_uuid"
  /\ opened' = FALSE /\ closeAttempted' = FALSE /\ caught' = ""
  /\ windowLog' = << >>
  /\ UNCHANGED <<main_pc, storeVars, device, client, subscribed, exc,
                 h_pc, h_data, h_args, notifs, sinkCalls, commits, saved,
                 readerVars, sf>>

\* asyncio.sleep(2.0) at line 184, back to while True
Idle ==
  /\ BleReady /\ pc = "idle"
  /\ pc' = "top"
  /\ UNCHANGED <<main_pc, storeVars, device, client, subscribed, exc, caught,
                 opened, closeAttempted, handlerVars, readerVars, sf>>

(***************************************************************************)
(* notification_handler and save_reading.                                  *)
(***************************************************************************)
Delivering == main_pc = "run" /\ subscribed /\ client = "open" /\ h_pc = "idle"
                /\ notifs < MaxNotifs

\* the transport calls notification_handler(sender, data)
Notify(data) ==
  /\ Delivering
  /\ notifs' = notifs + 1
  /\ h_pc' = "parse"
  /\ h_data' = data
  /\ UNCHANGED <<main_pc, storeVars, bleVars, h_args, sinkCalls, commits,
                 saved, windowLog, readerVars, sf>>

\* as HandlerDrop, had the handler saved the defaults of lines 113-114
HandlerDrop_SavesDefaults ==
  /\ h_pc = "parse" /\ ~parse_glucose(h_data).ok
  /\ readings_cache' = << [timestamp |-> "", mgdl |-> "0", mmol |-> "0"] >>
  /\ commits' = commits + 1
  /\ windowLog' = Append(windowLog, "drop")
  /\ h_pc' = "idle"
  /\ UNCHANGED <<main_pc, latest_status, csv_file, bleVars, h_data, h_args,
                 notifs, sinkCalls, saved, readerVars, sf>>

\* parse_glucose raises: except Exception at line 133
HandlerDrop ==
  /\ h_pc = "parse" /\ ~parse_glucose(h_data).ok
  /\ windowLog' = Append(windowLog, "drop")
  /\ h_pc' = "idle"
  /\ UNCHANGED <<main_pc, storeVars, bleVars, h_data, h_args, notifs, sinkCalls,
                 commits, saved, readerVars, sf>>

\* lines 130-132: save_reading(dt, mgdl, mmol) is entered
HandlerParsed ==
  /\ h_pc = "parse" /\ parse_glucose(h_data).ok
  /\ h_args' = SaveArgs(parse_glucose(h_data))
  /\ saved' = saved \cup {SaveArgs(parse_glucose(h_data))}
  /\ h_pc' = "write"
  /\ UNCHANGED <<main_pc, storeVars, bleVars, h_data, notifs, sinkCalls,
                 commits, windowLog, readerVars, sf>>

\* lines 54-57 complete
SaveWriteOk ==
  /\ h_pc = "write"
  /\ csv_file' = WrittenFile(h_args)
  /\ sinkCalls' = sinkCalls + 1
  /\ h_pc' = "commit"
  /\ UNCHANGED <<main_pc, latest_status, readings_cache, bleVars, h_data,
                 h_args, notifs, commits, saved, windowLog, readerVars, sf>>

\* as SaveWriteError, had lines 54-57 stood in a try of their own
SaveWriteError_GoesOn(f) ==
  /\ h_pc = "write" /\ f \in FailedWrites(csv_file)
  /\ csv_file' = f
  /\ sinkCalls' = sinkCalls + 1
  /\ h_pc' = "commit"
  /\ UNCHANGED <<main_pc, latest_status, readings_cache, bleVars, h_data,
                 h_args, notifs, commits, saved, windowLog, readerVars, sf>>

\* lines 54-57 raise OSError: save_reading is left, line 133 catches
SaveWriteError(f) ==
  /\ h_pc = "write" /\ f \in FailedWrites(csv_file)
  /\ csv_file' = f
  /\ sinkCalls' = sinkCalls + 1
  /\ windowLog' = Append(windowLog, "sinkfail")
  /\ h_pc' = "idle" /\ h_args' = NoArgs
  /\ UNCHANGED <<main_pc, latest_status, readings_cache, bleVars, h_data,
                 notifs, commits, saved, readerVars, sf>>

\* as SaveCommit, had the cached dict been updated key by key in place:
\* the list shows the new mgdl beside the old mmol
SaveCommit_InPlace ==
  /\ h_pc = "commit"
  /\ readings_cache' =
       IF Len(readings_cache) = 0 THEN << h_args >>
       ELSE << [timestamp |-> h_args.timestamp, mgdl |-> h_args.mgdl,
                mmol |-> readings_cache[1].mmol] >>
  /\ commits' = commits + 1
  /\ windowLog' = Append(windowLog, "commit")
  /\ h_pc' = "idle" /\ h_args' = NoArgs
  /\ UNCHANGED <<main_pc, latest_status, csv_file, bleVars, h_data, notifs,
                 sinkCalls, saved, readerVars, sf>>

\* lines 60-66, and notification_handler returns
SaveCommit ==
  /\ h_pc = "commit"
  /\ readings_cache' = << h_args >>
  /\ commits' = commits + 1
  /\ windowLog' = Append(windowLog, "commit")
  /\ h_pc' = "idle" /\ h_args' = NoArgs
  /\ UNCHANGED <<main_pc, latest_status, csv_file, bleVars, h_data, notifs,
                 sinkCalls, saved, readerVars, sf>>

(***************************************************************************)
(* Specifications.                                                         *)
(***************************************************************************)
BleStep ==
  \/ LoopTop
  \/ \E d \in Devices : ScanUuidFound(d)
  \/ ScanUuidNone
  \/ ScanUuidError
  \/ \E d \in Devices : ScanNameFound(d)
  \/ ScanNameNone
  \/ ScanNameError
  \/ ConnectOk
  \/ ConnectNotConnected
  \/ ConnectError
  \/ StartNotifyOk
  \/ StartNotifyError
  \/ DwellEnd
  \/ StopNotifyOk
  \/ StopNotifyError
  \/ AExit
  \/ Idle

HandlerStep ==
  \/ HandlerDrop
  \/ HandlerParsed
  \/ SaveWriteOk
  \/ \E f \in FailedWrites(csv_file) : SaveWriteError(f)
  \/ SaveCommit

Next ==
  \/ LoadCsv
  \/ BleStep
  \/ PeerDisconnect
  \/ \E data \in EnginePayloads : Notify(data)
  \/ HandlerStep
  \/ \E r \in Readers : GetDataReadings(r)
  \/ \E r \in Readers : GetDataReturn(r)

Spec == Init /\ [][Next]_vars

\* every awaited call returns or raises, every file operation ends.
\* the decoder and the handler applied to one payload in a sync window
ParseInit ==
  /\ main_pc = "run"
  /\ latest_status = StatusConnected
  /\ readings_cache = << >>
  /\ csv_file = AbsentFile
  /\ pc = "dwell"
  /\ device \in {d \in Devices : ServiceFilter(d)}
  /\ client = "open"
  /\ subscribed = TRUE
  /\ exc = ""
  /\ caught = ""
  /\ h_pc = "parse"
  /\ h_data \in ParseInputs
  /\ h_args = NoArgs
  /\ r_pc = [r \in Readers |-> "idle"]
  /\ r_readings = [r \in Readers |-> << >>]
  /\ notifs = 1
  /\ sinkCalls = 0
  /\ commits = 0
  /\ saved = {}
  /\ windowLog = << >>
  /\ opened = TRUE
  /\ closeAttempted = FALSE
  /\ sf = SFloatFrame(0, 0)

ParseSpec == ParseInit /\ [][HandlerStep]_vars

\* lines 98-106: the concentration bytes become raw_sfloat, mantissa and
\* exponent
UnpackSFloat ==
  /\ h_pc = "parse" /\ ~sf.done
  /\ sf' = LET raw_sfloat == UnpackH(sf.lo, sf.hi)
            IN  [sf EXCEPT !.done = TRUE, !.raw_sfloat = raw_sfloat,
                           !.mantissa = DecodeMantissa(raw_sfloat),
                           !.exponent = DecodeExponent(raw_sfloat)]
  /\ UNCHANGED <<main_pc, storeVars, bleVars, handlerVars, readerVars>>

\* the handler holds a payload in a sync window, parse_glucose is at line 98
HandlerHolds(payloads) ==
  /\ main_pc = "run"
  /\ latest_status = StatusConnected
  /\ readings_cache = << >>
  /\ csv_file = AbsentFile
  /\ pc = "dwell"
  /\ device \in {d \in Devices : ServiceFilter(d)}
  /\ client = "open"
  /\ subscribed = TRUE
  /\ exc = ""
  /\ caught = ""
  /\ h_pc = "parse"
  /\ h_data \in payloads
  /\ h_args = NoArgs
  /\ r_pc = [r \in Readers |-> "idle"]
  /\ r_readings = [r \in Readers |-> << >>]
  /\ notifs = 1
  /\ sinkCalls = 0
  /\ commits = 0
  /\ saved = {}
  /\ windowLog = << >>
  /\ opened = TRUE
  /\ closeAttempted = FALSE
  /\ sf = SFloatFrame(h_data[Len(h_data) - 1], h_data[Len(h_data)])

\* the SFLOAT step of parse_glucose applied to every 16-bit word
SFloatInit == HandlerHolds(AllWordPayloads)
SFloatSpec == SFloatInit /\ [][UnpackSFloat]_vars

\* line 130 applied to every unit and concentration of ConvertPayloads
ConvertInit == HandlerHolds(ConvertPayloads)
ConvertSpec == ConvertInit /\ [][HandlerParsed]_vars

\* line 130 applied to records that carry a time offset
OffsetInit == HandlerHolds(OffsetPayloads)
OffsetSpec == OffsetInit /\ [][HandlerParsed]_vars

\* the process is stopped after a reading was saved and is started anew:
\* the module globals are as at import, sugar_readings.csv is what the
\* stopped process left (saved, the record of past calls, stays)
Restart ==
  /\ main_pc = "run" /\ h_pc = "idle" /\ commits > 0
  /\ main_pc' = "load"
  /\ latest_status' = StatusInitializing
  /\ readings_cache' = << >>
  /\ pc' = "top" /\ device' = NoDevice /\ client' = "none"
  /\ subscribed' = FALSE /\ exc' = "" /\ caught' = ""
  /\ opened' = FALSE /\ closeAttempted' = FALSE
  /\ h_data' = << >> /\ h_args' = NoArgs
  /\ notifs' = 0 /\ sinkCalls' = 0 /\ commits' = 0 /\ windowLog' = << >>
  /\ sf' = SFloatFrame(0, 0)
  /\ UNCHANGED <<csv_file, h_pc, saved, readerVars>>

\* a reading is decoded and saved, then the process is started again and
\* load_csv reads the file
RoundTripInit == HandlerHolds(RoundTripPayloads)
RoundTripNext ==
  \/ HandlerParsed
  \/ SaveWriteOk
  \/ SaveCommit
  \/ Restart
  \/ LoadCsv
RoundTripSpec == RoundTripInit /\ [][RoundTripNext]_vars

\* the BLE thread and the main thread alone (no HTTP request is served),
\* the meter sending records of LivePayloads
EngineNext ==
  \/ LoadCsv
  \/ BleStep
  \/ PeerDisconnect
  \/ \E data \in LivePayloads : Notify(data)
  \/ HandlerStep

\* main thread, coroutine and callback run one at a time (the callback runs
\* on the coroutine's event loop, both start after load_csv), so one
\* condition covers the three: whichever of them can run does run
FairSpec ==
  /\ Init /\ [][EngineNext]_vars
  /\ WF_vars(LoadCsv \/ BleStep \/ HandlerStep)

(***************************************************************************)
(* Properties.                                                             *)
(***************************************************************************)
ScanningPositions == {"top", "scan_uuid", "scan_name"}
KnownStatuses ==
  {StatusInitializing, StatusScanning, StatusConnected}
    \cup {StatusConnecting(NameStr(d)) : d \in Devices}

\* C1: when opening the BleakClient connection fails while the status is
\* 'Connecting to <name>...', the loop goes to the idle sleep with the status
\* and the (absent) connection untouched, the sleep is followed by the top of
\* the loop only, the top of the loop sets 'Scanning for Accu-Chek...', and the
\* status does become 'Scanning for Accu-Chek...' again.
C1_ConnectFailureBackToScanning ==
  /\ [][(pc = "connect" /\ pc' # "connect" /\ ~opened')
          => /\ latest_status = StatusConnecting(NameStr(device))
             /\ pc' = "idle"
             /\ latest_status' = latest_status
             /\ client' = "none"]_vars
  /\ [][(pc = "idle" /\ ~opened)
          => /\ pc' \in {"idle", "top"}
             /\ latest_status' = latest_status
             /\ client' = "none"]_vars
  /\ [][(pc = "top" /\ pc' # "top")
          => pc' = "scan_uuid" /\ latest_status' = StatusScanning]_vars
  /\ ((pc = "idle" /\ caught = "connect failed")
        ~> (pc = "scan_uuid" /\ latest_status = StatusScanning))

\* a connect attempt has just failed and the idle sleep is running
C1_Witness ==
  /\ pc = "idle" /\ caught = "connect failed" /\ ~opened
  /\ latest_status = StatusConnecting(NameStr(device))

\* C2: ble_loop never leaves its loop, and whatever the transport calls
\* return or raise, a new Scanning iteration begins again and again.
C2_ScanningInfinitelyOften ==
  /\ [](pc \in {"top", "scan_uuid", "scan_name", "connect", "start_notify",
                "dwell", "stop_notify", "aexit", "idle"})
  /\ []<>(pc = "scan_uuid" /\ latest_status = StatusScanning)

\* a new Scanning iteration has begun after a sync window that took readings
C2_Witness ==
  /\ pc = "scan_uuid" /\ latest_status = StatusScanning
  /\ commits > 0 /\ client = "none"

\* C3: a payload that parse_glucose rejects is dropped by the handler and
\* nothing else changes: cache, file, status, the loop's position, the
\* connection and the subscription stay as they are, the handler returns
\* normally and is free for the next payload.
C3_DecodeFailureDropsPayload ==
  [][(h_pc = "parse" /\ ~parse_glucose(h_data).ok /\ h_pc' # "parse")
       => /\ h_pc' = "idle"
          /\ readings_cache' = readings_cache
          /\ csv_file' = csv_file
          /\ sinkCalls' = sinkCalls /\ commits' = commits
          /\ latest_status' = latest_status
          /\ pc' = pc /\ exc' = exc /\ caught' = caught
          /\ client' = client /\ subscribed' = subscribed]_vars

\* in one sync window a payload was dropped and a later one committed
C3_Witness ==
  /\ Len(windowLog) = 2 /\ windowLog[1] = "drop" /\ windowLog[2] = "commit"
  /\ subscribed /\ client = "open" /\ pc = "dwell"
  /\ Len(readings_cache) = 1 /\ readings_cache[1] \in saved

\* C4: every reading a get_data call is about to return is, as a whole, the
\* argument triple of one save_reading call or one row loaded by load_csv.
C4_NoTornReading ==
  \A r \in Readers : \A i \in 1..Len(r_readings[r]) :
    \/ r_readings[r][i] \in saved
    \/ r_readings[r][i] \in InitialRows

\* a get_data call holds a reading while save_reading is about to replace
\* the cache with another one
C4_Witness ==
  \E r \in Readers :
    /\ r_pc[r] = "readings" /\ Len(r_readings[r]) = 1
    /\ h_pc = "commit" /\ commits > 0
    /\ r_readings[r][1].mgdl # h_args.mgdl
    /\ r_readings[r][1].mmol # h_args.mmol

\* C5 (the code violates it): whether the CSV write succeeds or fails, save_reading
\* goes on to replace readings_cache with the reading it was given.
C5_SinkFailureNotPropagated ==
  [][(h_pc = "write" /\ sinkCalls' = sinkCalls + 1)
       => (h_pc' = "commit" /\ h_args' = h_args)]_vars

\* C6 (the code violates it): between two handler calls the number of CSV writes
\* begun equals the number of readings committed to readings_cache.
C6_SinkCallsEqualCommits ==
  h_pc = "idle" => sinkCalls = commits

\* C7: an iteration that entered the BleakClient context reaches the idle
\* sleep only through __aexit__, and while the engine is scanning, or about
\* to, no connection is open and no subscription is active.
C7_ClosedBeforeScanning ==
  /\ (pc \in {"idle", "top"} /\ opened) => closeAttempted
  /\ (pc \in ScanningPositions \cup {"idle", "connect"})
       => (client = "none" /\ ~subscribed)

\* an iteration whose start_notify raised is back at the idle sleep
C7_Witness ==
  /\ pc = "idle" /\ opened /\ closeAttempted
  /\ caught = "start_notify failed" /\ client = "none"

\* C8 (the code violates it): latest_status names the phase the engine is in:
\* 'Connected! Waiting for Data...' only while a connection is open,
\* 'Connecting to ...' only while the connection is being opened,
\* and 'Scanning for Accu-Chek...' whenever the engine is scanning.
C8_StatusNamesPhase ==
  main_pc = "run" =>
    /\ (latest_status = StatusConnected => client = "open")
    /\ (latest_status \in {StatusConnecting(NameStr(d)) : d \in Devices}
          => pc = "connect")
    /\ (pc \in {"scan_uuid", "scan_name"} => latest_status = StatusScanning)

\* C9 (the code violates it): once a connection attempt has failed, latest_status
\* holds the error text during the idle sleep.
C9_ConnectErrorPublished ==
  (pc = "idle" /\ caught = "connect failed")
    => latest_status \notin KnownStatuses

\* C10: parse_glucose rejects every payload shorter than 10 bytes, and the
\* handler call given such a payload ends without a CSV write and without
\* a change of readings_cache or of the file.
C10_ShortPayloadRejected ==
  /\ []((h_pc = "parse" /\ Len(h_data) < 10) => ~parse_glucose(h_data).ok)
  /\ [][(h_pc = "parse" /\ Len(h_data) < 10 /\ h_pc' # "parse")
          => /\ h_pc' = "idle"
             /\ readings_cache' = readings_cache
             /\ csv_file' = csv_file
             /\ sinkCalls' = sinkCalls /\ commits' = commits
             /\ saved' = saved]_vars

\* the handler has returned from a 9-byte payload with nothing committed
C10_Witness ==
  /\ h_pc = "idle" /\ Len(h_data) = 9 /\ windowLog = <<"drop">>
  /\ commits = 0 /\ sinkCalls = 0 /\ readings_cache = << >>

\* C11: for every 16-bit concentration word w the decoded mantissa is
\* m = w & 0x0FFF if m < 0x0800 and m - 0x1000 otherwise, the decoded exponent
\* is e = w >> 12 if e < 8 and e - 0x10 otherwise; so field 0x0FFF is -1,
\* field 0x07FF is 2047, exponent field 0xD is -3 and exponent field 0x3 is 3.
C11_SFloatFields ==
  sf.done =>
    LET w == sf.lo + 256 * sf.hi
        m == w % 4096
        e == w \div 4096
    IN  /\ sf.raw_sfloat = w
        /\ sf.mantissa = (IF m < 2048 THEN m ELSE m - 4096)
        /\ sf.exponent = (IF e < 8 THEN e ELSE e - 16)
        /\ sf.mantissa \in -2048..2047 /\ sf.exponent \in -8..7
        /\ (m = 4095 => sf.mantissa = -1)
        /\ (m = 2047 => sf.mantissa = 2047)
        /\ (e = 13 => sf.exponent = -3)
        /\ (e = 3 => sf.exponent = 3)

\* the word 0xD800 has been decoded: most negative mantissa, exponent -3
C11_Witness ==
  /\ sf.done /\ sf.lo = 0 /\ sf.hi = 216
  /\ sf.mantissa = -2048 /\ sf.exponent = -3

C13_CacheHoldsLatestReading ==
  (h_pc = "idle" /\ notifs > 0 /\ parse_glucose(h_data).ok)
    => readings_cache = << SaveArgs(parse_glucose(h_data)) >>

\* C14: a get_data step changes neither latest_status nor readings_cache (nor
\* the file); latest_status changes only in a step of ble_loop; once load_csv
\* has run, readings_cache changes only in the assignment of save_reading,
\* running inside notification_handler, and becomes the reading it was given.
C14_StoreWriters ==
  [][/\ (r_pc' # r_pc)
          => /\ latest_status' = latest_status
             /\ readings_cache' = readings_cache
             /\ csv_file' = csv_file
     /\ (latest_status' # latest_status)
          => (pc' # pc /\ h_pc' = h_pc /\ r_pc' = r_pc /\ main_pc = "run")
     /\ (readings_cache' # readings_cache)
          => \/ main_pc = "load"
             \/ /\ h_pc = "commit" /\ h_pc' = "idle"
                /\ readings_cache' = << h_args >>
                /\ pc' = pc /\ r_pc' = r_pc]_vars

\* a get_data call holds the reading save_reading committed while the
\* engine is connected
C14_Witness ==
  \E r \in Readers :
    /\ r_pc[r] = "readings" /\ Len(r_readings[r]) = 1
    /\ r_readings[r] = readings_cache /\ commits > 0
    /\ latest_status = StatusConnected /\ client = "open"

\* the iteration is on its way out after start_notify raised
StartNotifyRecovery ==
  \/ pc = "aexit" /\ exc = "start_notify failed"
  \/ pc = "idle" /\ caught = "start_notify failed"

\* C15: when start_notify raises, the loop goes straight to __aexit__ (no
\* dwell, no stop_notify), __aexit__ closes the connection, no handler call
\* ran in this window and none commits a reading on the way, the idle sleep
\* is followed by the top of the loop only, and the engine does reach
\* Scanning again.
C15_StartNotifyFailureRecovery ==
  /\ [][(pc = "start_notify" /\ exc' = "start_notify failed")
          => (pc' = "aexit" /\ ~subscribed')]_vars
  /\ [](StartNotifyRecovery
          => /\ ~subscribed /\ h_pc = "idle" /\ windowLog = << >>
             /\ (pc = "idle" => client = "none" /\ closeAttempted))
  /\ [][StartNotifyRecovery
          => /\ commits' = commits /\ readings_cache' = readings_cache
             /\ (pc = "aexit" /\ pc' # pc) => (pc' = "idle" /\ client' = "none")
             /\ (pc = "idle" /\ pc' # pc) => pc' = "top"]_vars
  /\ [][(pc = "top" /\ pc' # pc)
          => (pc' = "scan_uuid" /\ latest_status' = StatusScanning)]_vars
  /\ (StartNotifyRecovery
        ~> (pc = "scan_uuid" /\ latest_status = StatusScanning
              /\ client = "none"))

\* start_notify raised on an open connection, the connection has been closed
\* and the idle sleep is running, the status still from line 164
C15_Witness ==
  /\ pc = "idle" /\ caught = "start_notify failed" /\ closeAttempted
  /\ client = "none" /\ ~subscribed /\ commits = 0 /\ windowLog = << >>
  /\ latest_status = StatusConnected

\* both scans of this iteration returned None and the idle sleep is running
NoDeviceFound == pc = "idle" /\ device = NoDevice /\ caught = ""

\* C16: the name scan starts only from a service scan that returned None;
\* a connection is attempted only with a device one of the two scans
\* returned (one that passes that scan's filter), the name scan being the
\* second; when both scans returned None no BleakClient is entered, the
\* status is still 'Scanning for Accu-Chek...', the idle sleep is followed by
\* the top of the loop only, and Scanning starts again.
C16_ScanFallbackOrder ==
  /\ [][(pc' = "scan_name" /\ pc # "scan_name")
          => (pc = "scan_uuid" /\ device' = NoDevice)]_vars
  /\ [][(pc' = "connect" /\ pc # "connect")
          => /\ device' \in Devices
             /\ \/ pc = "scan_uuid" /\ ServiceFilter(device')
                \/ pc = "scan_name" /\ device = NoDevice
                     /\ NameFilter(device')]_vars
  /\ [][(opened' /\ ~opened) => (pc = "connect" /\ device \in Devices)]_vars
  /\ [](NoDeviceFound
          => (~opened /\ client = "none" /\ latest_status = StatusScanning))
  /\ [][(NoDeviceFound /\ pc' # pc)
          => (pc' = "top" /\ ~opened' /\ client' = "none"
                /\ latest_status' = StatusScanning)]_vars
  /\ (NoDeviceFound ~> (pc = "scan_uuid" /\ latest_status = StatusScanning))

\* neither scan found a meter: the loop sleeps without having connected,
\* after an earlier iteration that did take a reading
C16_Witness ==
  /\ NoDeviceFound /\ ~opened /\ client = "none"
  /\ latest_status = StatusScanning /\ commits > 0

\* the record with flag bit 0 cleared and the two offset bytes taken out
WithoutOffset(data) ==
  <<data[1] - 1>> \o SubSeq(data, 2, 10) \o SubSeq(data, 13, Len(data))

\* C17: a record with flag bit 0 set is decoded as the same record without
\* its two offset bytes and with the bit clear: the timestamp is the one of
\* the seven base-time bytes, the concentration is the word at bytes 12-13,
\* and the result does not depend on what the offset bytes hold.
C17_TimeOffsetSkipped ==
  (h_pc = "write" /\ h_data[1] % 2 = 1) =>
    /\ parse_glucose(WithoutOffset(h_data)).ok
    /\ h_args = SaveArgs(parse_glucose(WithoutOffset(h_data)))
    /\ h_args.timestamp =
         FormatTime(UnpackH(h_data[4], h_data[5]), h_data[6], h_data[7],
                    h_data[8], h_data[9], h_data[10])
    /\ \A off \in OffsetFields :
         SaveArgs(parse_glucose(SubSeq(h_data, 1, 10) \o off
                                  \o SubSeq(h_data, 13, 14))) = h_args

\* a record whose offset field holds the bytes of 53 * 10^-4 and whose
\* concentration word is 120 * 10^-5 kg/L has been decoded as 120 mg/dL
C17_Witness ==
  /\ h_pc = "write" /\ h_data[1] = 1
  /\ SubSeq(h_data, 11, 12) = <<SFloat(53, -4) % 256, SFloat(53, -4) \div 256>>
  /\ h_args = [timestamp |-> "2024-03-15 08:30:59", mgdl |-> "120",
               mmol |-> "6.7"]

\* C18: save_reading replaces readings_cache only when its write has left
\* the file holding the header and this reading; a write that fails ends the
\* handler call with readings_cache as it was; so readings are committed no
\* more often than writes were begun, and what get_data holds was written.
C18_WriteBeforeCommit ==
  /\ [][(main_pc = "run" /\ readings_cache' # readings_cache)
          => /\ h_pc = "commit"
             /\ csv_file = WrittenFile(h_args)
             /\ readings_cache' = << h_args >>
             /\ commits' = commits + 1]_vars
  /\ [][(h_pc = "write" /\ h_pc' # "write")
          => \/ h_pc' = "commit" /\ csv_file' = WrittenFile(h_args)
                  /\ readings_cache' = readings_cache
             \/ h_pc' = "idle" /\ csv_file' \in FailedWrites(csv_file)
                  /\ readings_cache' = readings_cache
                  /\ commits' = commits]_vars
  /\ [](commits <= sinkCalls)
  /\ [](h_pc = "commit" => csv_file = WrittenFile(h_args))

\* the second write of a sync window failed and truncated the file; the
\* cache still holds the first reading
C18_Witness ==
  /\ h_pc = "idle" /\ windowLog = <<"commit", "sinkfail">>
  /\ csv_file = [exists |-> TRUE, rows |-> << >>]
  /\ Len(readings_cache) = 1 /\ readings_cache[1] \in saved
  /\ commits = 1 /\ sinkCalls = 2

\* C19: once save_reading has returned, load_csv applied to the file it
\* wrote yields the list save_reading left in readings_cache; and when the
\* process is started again, load_csv makes readings_cache exactly that one
\* reading, with the same three strings.
C19_SaveLoadRoundTrip ==
  /\ (h_pc = "idle" /\ commits > 0)
        => /\ Len(readings_cache) = 1
           /\ readings_cache[1] \in saved
           /\ LoadRows(csv_file) = readings_cache
  /\ (main_pc = "run" /\ notifs = 0 /\ saved # {})
        => \E a \in saved : saved = {a} /\ readings_cache = << a >>

\* after the restart load_csv has read back a negative reading
C19_Witness ==
  /\ main_pc = "run" /\ notifs = 0 /\ commits = 0
  /\ readings_cache = << [timestamp |-> "2024-03-15 08:30:07",
                          mgdl |-> "-50", mmol |-> "-2.8"] >>

====
